---- MODULE Spec2Model ----
(***************************************************************************)
(* Model of the CocoIndex python service: the size-based chunker           *)
(* (chunking.py) and the indexing / search flow over one shared psycopg2   *)
(* connection (cocoindex_flow.py).                                         *)
(*                                                                         *)
(* File content is a sequence of characters; "NL" stands for the newline   *)
(* character and "x" for any other character.                              *)
(***************************************************************************)
EXTENDS Integers, Sequences, FiniteSets, Bags, TLC

VARIABLES
    ck,      \* the frame of the chunk_code call under study
    db,      \* table code_chunks and the shared connection flow.db_conn
    req,     \* per request thread: the call it serves and the call's locals
    ncalls,  \* index calls started so far
    last,    \* per repository: the kind of the last index call that returned
    scan     \* the _collect_files call under study: its directory tree and result

vars == <<ck, db, req, ncalls, last, scan>>

(***************************************************************************)
(* Bounds of the chunker specification.                                    *)
(***************************************************************************)
MaxContentLen == 5
MaxChunkSizeArg == 3
MaxOverlapArg == 3

(***************************************************************************)
(* Bounds of the service specification.                                    *)
(***************************************************************************)
MaxIndexCalls == 3
MaxLimit == 2

Min(a, b) == IF a <= b THEN a ELSE b
Max(a, b) == IF a >= b THEN a ELSE b

Chars == {"x", "NL"}

RECURSIVE SeqsUpTo(_, _)
SeqsUpTo(S, n) ==
    IF n = 0 THEN {<<>>}
    ELSE LET shorter == SeqsUpTo(S, n - 1)
         IN  shorter \cup {Append(s, c) : s \in {t \in shorter : Len(t) = n - 1}, c \in S}

Contents == SeqsUpTo(Chars, MaxContentLen)

(***************************************************************************)
(* Python built-ins used by chunk_code.                                    *)
(***************************************************************************)
\* content.split('\n'): one more line than there are newline characters.
RECURSIVE split(_)
split(content) ==
    IF content = <<>> THEN << <<>> >>
    ELSE LET rest == split(Tail(content))
         IN  IF Head(content) = "NL"
             THEN << <<>> >> \o rest
             ELSE << <<Head(content)>> \o Head(rest) >> \o Tail(rest)

\* '\n'.join(lines)
RECURSIVE join(_)
join(ls) ==
    IF ls = <<>> THEN <<>>
    ELSE IF Len(ls) = 1 THEN Head(ls)
    ELSE Head(ls) \o <<"NL">> \o join(Tail(ls))

\* A slice bound as Python normalises it: a negative index counts from the end.
SliceIndex(i, n) == IF i < 0 THEN Max(n + i, 0) ELSE Min(i, n)

\* lines[start:end]
Slice(ls, start, end) ==
    LET lo == SliceIndex(start, Len(ls))
        hi == SliceIndex(end, Len(ls))
    IN  IF hi <= lo THEN <<>> ELSE SubSeq(ls, lo + 1, hi)

\* f'chunk_{chunk_num}'
ChunkTypeOf(chunk_num) == <<"chunk_", chunk_num>>
WholeFile == <<"whole_file">>

(***************************************************************************)
(* chunk_code, statement by statement.  A frame holds the locals.          *)
(***************************************************************************)
\* Lines 59-63: the locals after the split.
ChunkEntry(content, max_chunk_size, chunk_overlap) ==
    [pc |-> "entered",
     content |-> content,
     max_chunk_size |-> max_chunk_size,
     chunk_overlap |-> chunk_overlap,
     lines |-> split(content),
     total_lines |-> Len(split(content)),
     chunks |-> <<>>,
     chunk_num |-> 0,
     start_line |-> 0]

\* Lines 66-79: the single chunk of a small file.
WholeFileChunk(f) ==
    [chunk_text |-> f.content,
     chunk_type |-> WholeFile,
     start_line |-> 1,
     end_line |-> f.total_lines,
     metadata |-> [total_lines |-> f.total_lines, is_truncated |-> FALSE]]

\* Mutant: the small-file test excludes a file of exactly max_chunk_size lines.
IsSmallFileStrict(f) == f.total_lines < f.max_chunk_size

IsSmallFile(f) == f.total_lines <= f.max_chunk_size

\* Lines 66-83: the small-file branch, or the loop's initialisation.
ChunkBranch(f) ==
    IF IsSmallFile(f)
    THEN [f EXCEPT !.chunks = <<WholeFileChunk(f)>>, !.pc = "returned"]
    ELSE [f EXCEPT !.chunk_num = 0, !.start_line = 0, !.pc = "loop"]

\* Line 86
WindowEnd(f) == Min(f.start_line + f.max_chunk_size, f.total_lines)

\* Lines 90-103: the chunk appended by one iteration.
WindowChunk(f) ==
    [chunk_text |-> join(Slice(f.lines, f.start_line, WindowEnd(f))),
     chunk_type |-> ChunkTypeOf(f.chunk_num),
     start_line |-> f.start_line + 1,
     end_line |-> WindowEnd(f),
     metadata |-> [total_lines |-> f.total_lines,
                   chunk_number |-> f.chunk_num,
                   total_chunks |-> -1,
                   is_truncated |-> WindowEnd(f) < f.total_lines]]

\* Mutant: the next window starts one line after the overlap position.
NextStartSkipsLine(f) == WindowEnd(f) - f.chunk_overlap + 1

\* Mutant: the next window starts one line before the overlap position.
NextStartOneEarly(f) == WindowEnd(f) - f.chunk_overlap - 1

\* Line 111
NextStart(f) == WindowEnd(f) - f.chunk_overlap

\* Mutant: no break after the chunk that reaches the last line.
ChunkIterateNoBreak(f) ==
    IF f.start_line < f.total_lines
    THEN [f EXCEPT !.chunks = Append(f.chunks, WindowChunk(f)),
                   !.chunk_num = f.chunk_num + 1,
                   !.start_line = NextStart(f)]
    ELSE [f EXCEPT !.pc = "fill"]

\* Lines 85-111: one evaluation of the while condition and, if it holds, the body.
ChunkIterate(f) ==
    IF f.start_line < f.total_lines
    THEN LET emitted == [f EXCEPT !.chunks = Append(f.chunks, WindowChunk(f)),
                                  !.chunk_num = f.chunk_num + 1]
         IN  IF WindowEnd(f) >= f.total_lines
             THEN [emitted EXCEPT !.pc = "fill"]
             ELSE [emitted EXCEPT !.start_line = NextStart(f)]
    ELSE [f EXCEPT !.pc = "fill"]

\* Mutant: the placeholder is never overwritten.
FilledChunkSkipped(chunk, n) == chunk

\* Line 115
FilledChunk(chunk, n) == [chunk EXCEPT !.metadata.total_chunks = n]

\* Lines 114-117
ChunkFill(f) ==
    [f EXCEPT !.chunks = [i \in 1..Len(f.chunks) |-> FilledChunk(f.chunks[i], Len(f.chunks))],
              !.pc = "returned"]

(***************************************************************************)
(* config.py.  Strings that the code inspects character by character       *)
(* (paths, extensions, skip patterns) are sequences of characters.         *)
(***************************************************************************)
\* MAX_CHUNK_SIZE and CHUNK_OVERLAP come from the environment; the model runs
\* the service configured with a window of 2 lines and an overlap of 1 line.
MAX_CHUNK_SIZE == 2
CHUNK_OVERLAP == 1

INDEXABLE_EXTENSIONS ==
    {<<".", "j", "s">>,
     <<".", "j", "s", "x">>,
     <<".", "t", "s">>,
     <<".", "t", "s", "x">>,
     <<".", "p", "y">>,
     <<".", "s", "w", "i", "f", "t">>,
     <<".", "k", "t">>,
     <<".", "j", "a", "v", "a">>,
     <<".", "g", "o">>,
     <<".", "r", "s">>,
     <<".", "r", "b">>,
     <<".", "p", "h", "p">>,
     <<".", "c">>,
     <<".", "c", "p", "p">>,
     <<".", "h">>,
     <<".", "h", "p", "p">>,
     <<".", "c", "s">>,
     <<".", "s", "c", "a", "l", "a">>,
     <<".", "c", "l", "j">>,
     <<".", "v", "u", "e">>,
     <<".", "s", "v", "e", "l", "t", "e">>}

SKIP_PATTERNS ==
    <<<<"*", "*", "/", "n", "o", "d", "e", "_", "m", "o", "d", "u", "l", "e", "s", "/", "*", "*">>,
      <<"*", "*", "/", "d", "i", "s", "t", "/", "*", "*">>,
      <<"*", "*", "/", "b", "u", "i", "l", "d", "/", "*", "*">>,
      <<"*", "*", "/", "*", ".", "m", "i", "n", ".", "j", "s">>,
      <<"*", "*", "/", "*", ".", "l", "o", "c", "k">>,
      <<"*", "*", "/", "v", "e", "n", "d", "o", "r", "/", "*", "*">>,
      <<"*", "*", "/", ".", "g", "i", "t", "/", "*", "*">>,
      <<"*", "*", "/", "t", "a", "r", "g", "e", "t", "/", "*", "*">>,
      <<"*", "*", "/", "_", "_", "p", "y", "c", "a", "c", "h", "e", "_", "_", "/", "*", "*">>,
      <<"*", "*", "/", "v", "e", "n", "v", "/", "*", "*">>,
      <<"*", "*", "/", "c", "o", "v", "e", "r", "a", "g", "e", "/", "*", "*">>,
      <<"*", "*", "/", ".", "n", "e", "x", "t", "/", "*", "*">>,
      <<"*", "*", "/", ".", "c", "a", "c", "h", "e", "/", "*", "*">>>>

(***************************************************************************)
(* The file system the service runs on.                                    *)
(*   /a/m.py        three lines (two chunks)                               *)
(*   /a/n.md        not indexable                                          *)
(*   /a/lib/w.js    one line                                               *)
(*   /a/dist/o.js   below a skipped directory                              *)
(*   /b/k.PY        one line                                               *)
(*   /e/r.md        a repository without indexable files                   *)
(*   /q             does not exist                                         *)
(***************************************************************************)
RepoA == <<"/", "a">>
RepoB == <<"/", "b">>
RepoE == <<"/", "e">>
RepoMissing == <<"/", "q">>

RepoPaths == {RepoA, RepoB, RepoE, RepoMissing}

\* Directory listings: os.walk's (dirs, filenames) for each directory.
Directories ==
    (RepoA :> [dirs |-> <<<<"l", "i", "b">>, <<"d", "i", "s", "t">>>>,
               filenames |-> <<<<"m", ".", "p", "y">>, <<"n", ".", "m", "d">>>>]) @@
    (<<"/", "a", "/", "l", "i", "b">> :> [dirs |-> <<>>, filenames |-> <<<<"w", ".", "j", "s">>>>]) @@
    (<<"/", "a", "/", "d", "i", "s", "t">> :> [dirs |-> <<>>, filenames |-> <<<<"o", ".", "j", "s">>>>]) @@
    (RepoB :> [dirs |-> <<>>, filenames |-> <<<<"k", ".", "P", "Y">>>>]) @@
    (RepoE :> [dirs |-> <<>>, filenames |-> <<<<"r", ".", "m", "d">>>>])

FileContents ==
    (<<"/", "a", "/", "m", ".", "p", "y">> :> <<"x", "NL", "x", "NL", "x">>) @@
    (<<"/", "a", "/", "n", ".", "m", "d">> :> <<"x">>) @@
    (<<"/", "a", "/", "l", "i", "b", "/", "w", ".", "j", "s">> :> <<"x", "x">>) @@
    (<<"/", "a", "/", "d", "i", "s", "t", "/", "o", ".", "j", "s">> :> <<"x">>) @@
    (<<"/", "b", "/", "k", ".", "P", "Y">> :> <<"x">>) @@
    (<<"/", "e", "/", "r", ".", "m", "d">> :> <<"x">>)

\* os.path.exists
PathExists(path) == path \in DOMAIN Directories \/ path \in DOMAIN FileContents

\* os.path.join(root, name)
PathJoin(root, name) == root \o <<"/">> \o name

\* os.path.relpath(path, repo_path), for a path below repo_path
RelPath(path, repo_path) == SubSeq(path, Len(repo_path) + 2, Len(path))

\* str.lower() on the letters file names of the model use
LowerOf == ("P" :> "p") @@ ("Y" :> "y") @@ ("J" :> "j") @@ ("S" :> "s")
Lower(s) == [i \in 1..Len(s) |-> IF s[i] \in DOMAIN LowerOf THEN LowerOf[s[i]] ELSE s[i]]

\* pattern in s (substring test)
Contains(s, pattern) ==
    \E i \in 0..(Len(s) - Len(pattern)) : SubSeq(s, i + 1, i + Len(pattern)) = pattern

\* s.replace(old, '')
RECURSIVE Remove(_, _)
Remove(s, old) ==
    IF Len(s) < Len(old) \/ s = <<>> THEN s
    ELSE IF SubSeq(s, 1, Len(old)) = old
         THEN Remove(SubSeq(s, Len(old) + 1, Len(s)), old)
         ELSE <<Head(s)>> \o Remove(Tail(s), old)

\* Line 158
PatternClean(pattern) == Remove(Remove(pattern, <<"*", "*", "/">>), <<"/", "*", "*">>)

\* Mutant: the patterns are matched against the whole path, repo_path included.
ShouldSkipWholePath(path, repo_path) ==
    \E i \in 1..Len(SKIP_PATTERNS) :
        Contains(path, PatternClean(SKIP_PATTERNS[i]))

\* Lines 152-162
ShouldSkip(path, repo_path) ==
    \E i \in 1..Len(SKIP_PATTERNS) :
        Contains(RelPath(path, repo_path), PatternClean(SKIP_PATTERNS[i]))

\* os.path.splitext(path)[1]: from the last dot of the base name, unless that
\* dot is preceded only by dots.
SplitExt(path) ==
    LET slashes == {i \in 1..Len(path) : path[i] = "/"}
        base == IF slashes = {} THEN 0 ELSE CHOOSE i \in slashes : \A j \in slashes : j <= i
        dots == {i \in (base + 1)..Len(path) : path[i] = "."}
        dot == IF dots = {} THEN 0 ELSE CHOOSE i \in dots : \A j \in dots : j <= i
    IN  IF dot = 0 \/ \A i \in (base + 1)..(dot - 1) : path[i] = "."
        THEN <<>>
        ELSE SubSeq(path, dot, Len(path))

\* Lines 164-167
ShouldIndex(file_path) == Lower(SplitExt(file_path)) \in INDEXABLE_EXTENSIONS

\* Line 141: the sub-directories os.walk descends into.
RECURSIVE KeptDirs(_, _, _)
KeptDirs(root, dirs, repo_path) ==
    IF dirs = <<>> THEN <<>>
    ELSE (IF ShouldSkip(PathJoin(root, Head(dirs)), repo_path)
          THEN <<>>
          ELSE <<PathJoin(root, Head(dirs))>>)
         \o KeptDirs(root, Tail(dirs), repo_path)

\* Lines 143-148: the files of one directory that are appended.
RECURSIVE KeptFiles(_, _)
KeptFiles(root, filenames) ==
    IF filenames = <<>> THEN <<>>
    ELSE (IF ShouldIndex(PathJoin(root, Head(filenames)))
          THEN <<PathJoin(root, Head(filenames))>>
          ELSE <<>>)
         \o KeptFiles(root, Tail(filenames))

\* Lines 139-148: os.walk top-down from root, pruning skipped directories.
\* listing gives os.walk's (dirs, filenames) of each directory.
RECURSIVE Walk(_, _, _)
RECURSIVE WalkAll(_, _, _)
Walk(listing, root, repo_path) ==
    IF root \notin DOMAIN listing THEN <<>>
    ELSE KeptFiles(root, listing[root].filenames)
         \o WalkAll(listing, KeptDirs(root, listing[root].dirs, repo_path), repo_path)

WalkAll(listing, roots, repo_path) ==
    IF roots = <<>> THEN <<>>
    ELSE Walk(listing, Head(roots), repo_path) \o WalkAll(listing, Tail(roots), repo_path)

\* Lines 135-150, on the file system given by listing.
ScanFiles(listing, repo_path) == Walk(listing, repo_path, repo_path)

\* Lines 135-150, on the file system the service runs on.
CollectFiles(repo_path) == ScanFiles(Directories, repo_path)

FilesToIndex == [r \in RepoPaths |-> CollectFiles(r)]

(***************************************************************************)
(* chunk_code as a function: the steps above run to completion.            *)
(***************************************************************************)
RECURSIVE RunLoop(_)
RunLoop(f) == IF f.pc = "loop" THEN RunLoop(ChunkIterate(f)) ELSE f

chunk_code(content, max_chunk_size, chunk_overlap) ==
    LET f == RunLoop(ChunkBranch(ChunkEntry(content, max_chunk_size, chunk_overlap)))
    IN  IF f.pc = "fill" THEN ChunkFill(f).chunks ELSE f.chunks

\* use_tree_sitter is False at the only call site, so smart_chunk is chunk_code.
smart_chunk(content, max_chunk_size, chunk_overlap) ==
    chunk_code(content, max_chunk_size, chunk_overlap)

(***************************************************************************)
(* The embedding model and the similarity score.  An embedding is          *)
(* abstracted to one number computed from the text, and                    *)
(* 1 - cosine distance to a score in hundredths.                           *)
(***************************************************************************)
encode(text) == Len(text)

Distance(e1, e2) == IF e1 >= e2 THEN e1 - e2 ELSE e2 - e1

\* 1 - (embedding <=> query)
Score(embedding, query_embedding) == 100 - Distance(embedding, query_embedding)

(***************************************************************************)
(* The database: table code_chunks as the server holds it (committed       *)
(* rows), and the one psycopg2 connection with its transaction status and  *)
(* the rows its open transaction sees.  psycopg2 opens a transaction at    *)
(* the first execute() and keeps it until commit(); a statement the        *)
(* server rejects leaves the transaction aborted, every later execute()    *)
(* raises until the transaction is ended, and commit() of an aborted       *)
(* transaction rolls it back.                                              *)
(***************************************************************************)
EmptyDb == [code_chunks |-> EmptyBag, status |-> "idle", view |-> EmptyBag]

OneRow(row) == SetToBag({row})

RowsOf(rows, repo_path) ==
    [r \in {x \in DOMAIN rows : x.repo_path = repo_path} |-> rows[r]]

RowsNotOf(rows, repo_path) ==
    [r \in {x \in DOMAIN rows : x.repo_path # repo_path} |-> rows[r]]

\* cursor.execute raises at once on a connection whose transaction is aborted.
Raises(d) == d.status = "aborted"

\* The server rejects a statement: the transaction's work is lost.
ServerError(d) == [d EXCEPT !.status = "aborted", !.view = d.code_chunks]

\* Lines 206-223: one INSERT that the server accepts.
ExecInsert(d, row) == [d EXCEPT !.status = "intrans", !.view = d.view (+) OneRow(row)]

\* Mutant: the DELETE removes nothing.
ExecDeleteNothing(d, repo_path) == [d EXCEPT !.status = "intrans"]

\* Line 232: DELETE FROM code_chunks WHERE repo_path = %s
ExecDelete(d, repo_path) ==
    [d EXCEPT !.status = "intrans", !.view = RowsNotOf(d.view, repo_path)]

\* Lines 259-280: a SELECT opens a transaction and changes no row.
ExecSelect(d) == [d EXCEPT !.status = "intrans"]

\* db_conn.commit()
Commit(d) ==
    IF d.status = "aborted"
    THEN [d EXCEPT !.status = "idle", !.view = d.code_chunks]
    ELSE [d EXCEPT !.status = "idle", !.code_chunks = d.view]

\* Lines 212-223: the row stored for one chunk of one file.
ChunkRow(repo_path, rel_file_path, chunk) ==
    [repo_path |-> repo_path,
     file_path |-> rel_file_path,
     chunk_type |-> chunk.chunk_type,
     start_line |-> chunk.start_line,
     end_line |-> chunk.end_line,
     embedding |-> encode(chunk.chunk_text)]

(***************************************************************************)
(* The chunker as a state machine: SpecChunk draws (content,               *)
(* max_chunk_size, chunk_overlap) and runs chunk_code one step at a time.  *)
(***************************************************************************)
ChunkArgs ==
    {ChunkEntry(c, m, o) : c \in Contents, m \in 1..MaxChunkSizeArg, o \in 0..MaxOverlapArg}

NoChunkCall == [pc |-> "none"]

ChunkBranchStep ==
    /\ ck.pc = "entered"
    /\ ck' = ChunkBranch(ck)
    /\ UNCHANGED <<db, req, ncalls, last, scan>>

\* The loop of a call whose overlap is not below the chunk size never ends; the
\* model follows it for MaxChunks chunks, one more than any call that returns
\* can emit.
MaxChunks == MaxContentLen + 2

ChunkLoopStep ==
    /\ ck.pc = "loop"
    /\ Len(ck.chunks) < MaxChunks
    /\ ck' = ChunkIterate(ck)
    /\ UNCHANGED <<db, req, ncalls, last, scan>>

ChunkFillStep ==
    /\ ck.pc = "fill"
    /\ ck' = ChunkFill(ck)
    /\ UNCHANGED <<db, req, ncalls, last, scan>>

NextChunk == ChunkBranchStep \/ ChunkLoopStep \/ ChunkFillStep

(***************************************************************************)
(* The service: request threads calling CocoIndexFlow.index_repository and *)
(* CocoIndexFlow.search on the one flow object of app.py.                  *)
(***************************************************************************)
Threads == {"t1", "t2"}

Queries == {<<"x">>, <<"x", "x">>}
Limits == 0..MaxLimit
Thresholds == {70, 99, 100}

\* The locals of a call.  at_start, base, fresh, prev and outcomes are history
\* kept for stating properties: the database when the call began, the
\* committed rows when the scan began, the database the same scan would
\* build from an empty store, the kind of the previous index call on the
\* repository, and what happened to each file.  cleared follows the DELETE of
\* a forced call: "pending" once executed, then "committed" or "lost" as the
\* transaction holding it is committed or rolled back.
IdleReq ==
    [op |-> "none", pc |-> "idle", error |-> "none",
     repo_path |-> <<>>, force |-> FALSE,
     files_to_index |-> <<>>, idx |-> 0,
     rel_file_path |-> <<>>, chunks |-> <<>>, k |-> 0,
     indexed_count |-> 0, chunk_count |-> 0,
     query |-> <<>>, limit |-> 0, threshold |-> 0, results |-> <<>>,
     at_start |-> EmptyDb, base |-> EmptyBag, fresh |-> EmptyDb,
     prev |-> "none", outcomes |-> <<>>, cleared |-> "none"]

\* What a commit() on database d, or a rejected statement, settles for the
\* DELETEs still pending on the connection.
SettleCleared(rq, to) ==
    [u \in Threads |-> IF rq[u].cleared = "pending"
                       THEN [rq[u] EXCEPT !.cleared = to] ELSE rq[u]]

AfterCommit(rq, d) == IF Raises(d) THEN rq ELSE SettleCleared(rq, "committed")

AfterAbort(rq) == SettleCleared(rq, "lost")

NoneInFlight == \A t \in Threads : req[t].pc = "idle"

\* Mutant: the index is cleared whatever force says.
EntryPcAlwaysClears(repo_path, force) ==
    IF ~PathExists(repo_path) THEN "raised" ELSE "clear"

\* Mutant: a forced call clears before the path is looked at.
EntryPcClearsFirst(repo_path, force) ==
    IF force THEN "clear"
    ELSE IF ~PathExists(repo_path) THEN "raised" ELSE "collect"

\* Lines 102-107: what index_repository does first.
EntryPc(repo_path, force) ==
    IF ~PathExists(repo_path) THEN "raised"
    ELSE IF force THEN "clear" ELSE "collect"

\* Lines 100-107
IndexEnter(t, repo_path, force) ==
    /\ req[t].pc = "idle"
    /\ ncalls < MaxIndexCalls
    /\ ncalls' = ncalls + 1
    /\ req' = [req EXCEPT ![t] =
                  [IdleReq EXCEPT !.op = "index",
                                  !.repo_path = repo_path,
                                  !.force = force,
                                  !.pc = EntryPc(repo_path, force),
                                  !.error = IF EntryPc(repo_path, force) = "raised"
                                            THEN "ValueError" ELSE "none",
                                  !.at_start = db,
                                  !.prev = last[repo_path]]]
    /\ UNCHANGED <<ck, scan, db, last>>

\* Lines 231-232: the DELETE of _clear_repo_index.
ClearExecute(t) ==
    /\ req[t].pc = "clear"
    /\ IF Raises(db)
       THEN /\ req' = [req EXCEPT ![t].pc = "raised",
                                  ![t].error = "InFailedSqlTransaction"]
            /\ UNCHANGED db
       ELSE /\ db' = ExecDelete(db, req[t].repo_path)
            /\ req' = [req EXCEPT ![t].pc = "clear_commit",
                                  ![t].cleared = "pending",
                                  ![t].fresh = ExecDelete(req[t].fresh, req[t].repo_path)]
    /\ UNCHANGED <<ck, scan, ncalls, last>>

\* Line 233
ClearCommit(t) ==
    /\ req[t].pc = "clear_commit"
    /\ db' = Commit(db)
    /\ req' = AfterCommit([req EXCEPT ![t].pc = "collect",
                                      ![t].fresh = Commit(req[t].fresh)], db)
    /\ UNCHANGED <<ck, scan, ncalls, last>>

\* Lines 110-115
Collect(t) ==
    /\ req[t].pc = "collect"
    /\ req' = [req EXCEPT ![t].files_to_index = FilesToIndex[req[t].repo_path],
                          ![t].idx = 1,
                          ![t].indexed_count = 0,
                          ![t].chunk_count = 0,
                          ![t].base = db.code_chunks,
                          ![t].pc = "loop"]
    /\ UNCHANGED <<ck, scan, db, ncalls, last>>

CurrentFile(r) == r.files_to_index[r.idx]

\* Lines 117-124: the loop moves to the next file; how the file ended is noted.
NextFile(r, outcome) ==
    [r EXCEPT !.idx = r.idx + 1,
              !.pc = "loop",
              !.chunks = <<>>,
              !.k = 0,
              !.rel_file_path = <<>>,
              !.outcomes = Append(r.outcomes, outcome)]

\* Lines 176-201 of _index_file: read, chunk, embed.  The read may fail
\* (return 0); mtime or the embedding may fail (the exception reaches line 123).
IndexFileBegin(t) ==
    /\ req[t].pc = "loop"
    /\ req[t].idx <= Len(req[t].files_to_index)
    /\ \E outcome \in {"ok", "read_error", "encode_error"} :
          LET chunks == smart_chunk(FileContents[CurrentFile(req[t])],
                                    MAX_CHUNK_SIZE, CHUNK_OVERLAP)
          IN  IF outcome # "ok"
              THEN req' = [req EXCEPT ![t] = NextFile(req[t], outcome)]
              ELSE IF chunks = <<>>
              THEN req' = [req EXCEPT ![t] = NextFile(req[t], "no_chunks")]
              ELSE req' = [req EXCEPT ![t].chunks = chunks,
                                      ![t].rel_file_path =
                                          RelPath(CurrentFile(req[t]), req[t].repo_path),
                                      ![t].k = 1,
                                      ![t].pc = "insert"]
    /\ UNCHANGED <<ck, scan, db, ncalls, last>>

\* Lines 205-223: one INSERT.  It raises on an aborted transaction; otherwise
\* it succeeds, or fails in the client before anything is sent (the row
\* cannot be adapted), or is rejected by the server.
InsertChunk(t) ==
    /\ req[t].pc = "insert"
    /\ LET r == req[t]
           row == ChunkRow(r.repo_path, r.rel_file_path, r.chunks[r.k])
       IN  IF Raises(db)
           THEN /\ req' = [req EXCEPT ![t] = NextFile(r, "in_failed_transaction")]
                /\ UNCHANGED db
           ELSE \/ /\ db' = ExecInsert(db, row)
                   /\ req' = [req EXCEPT ![t].k = r.k + 1,
                                         ![t].pc = IF r.k = Len(r.chunks)
                                                   THEN "commit" ELSE "insert",
                                         ![t].fresh = ExecInsert(r.fresh, row)]
                \/ /\ req' = [req EXCEPT ![t] = NextFile(r, "client_error")]
                   /\ UNCHANGED db
                \/ /\ db' = ServerError(db)
                   /\ req' = AfterAbort([req EXCEPT ![t] =
                                            [NextFile(r, "server_error") EXCEPT
                                                !.fresh = ServerError(r.fresh)]])
    /\ UNCHANGED <<ck, scan, ncalls, last>>

\* Lines 225-226 and 120-122
CommitFile(t) ==
    /\ req[t].pc = "commit"
    /\ db' = Commit(db)
    /\ LET r == req[t]
           chunks_added == Len(r.chunks)
           counted == IF chunks_added > 0
                      THEN [r EXCEPT !.indexed_count = r.indexed_count + 1,
                                     !.chunk_count = r.chunk_count + chunks_added]
                      ELSE r
       IN  req' = AfterCommit([req EXCEPT ![t] =
                                  [NextFile(counted, "ok") EXCEPT
                                      !.fresh = Commit(r.fresh)]], db)
    /\ UNCHANGED <<ck, scan, ncalls, last>>

\* Lines 126-133
IndexReturn(t) ==
    /\ req[t].pc = "loop"
    /\ req[t].idx > Len(req[t].files_to_index)
    /\ req' = [req EXCEPT ![t].pc = "returned"]
    /\ UNCHANGED <<ck, scan, db, ncalls, last>>

(***************************************************************************)
(* search                                                                  *)
(***************************************************************************)
BestRows(rows, query_embedding) ==
    {r \in DOMAIN rows :
        \A o \in DOMAIN rows :
            Score(o.embedding, query_embedding) <= Score(r.embedding, query_embedding)}

\* Lines 259-280: the possible answers to
\* SELECT ... WHERE repo_path = %s ORDER BY embedding <=> %s LIMIT n;
\* rows at the same distance come in any order.
RECURSIVE NearestRows(_, _, _)
NearestRows(rows, query_embedding, n) ==
    IF n <= 0 \/ DOMAIN rows = {} THEN {<<>>}
    ELSE UNION {{<<r>> \o rest :
                    rest \in NearestRows(rows (-) OneRow(r), query_embedding, n - 1)} :
                r \in BestRows(rows, query_embedding)}

\* Line 277
FetchCount(limit) == limit * 2

\* Mutant: a score equal to the threshold is rejected.
PassesThresholdStrict(score, threshold) == score > threshold

\* Line 285
PassesThreshold(score, threshold) == score >= threshold

\* Lines 286-295; "row" remembers the stored row the result was made from.
ResultOf(row, query_embedding) ==
    [file_path |-> row.file_path,
     chunk_type |-> row.chunk_type,
     start_line |-> row.start_line,
     end_line |-> row.end_line,
     score |-> Score(row.embedding, query_embedding),
     row |-> row]

\* Lines 283-295
RECURSIVE FilterResults(_, _, _)
FilterResults(fetched, query_embedding, threshold) ==
    IF fetched = <<>> THEN <<>>
    ELSE (IF PassesThreshold(Score(Head(fetched).embedding, query_embedding), threshold)
          THEN <<ResultOf(Head(fetched), query_embedding)>>
          ELSE <<>>)
         \o FilterResults(Tail(fetched), query_embedding, threshold)

\* Mutant: the filtered list is returned whole.
TruncateNothing(results, limit) == results

\* Line 297: filtered_results[:limit]
Truncate(results, limit) == SubSeq(results, 1, Min(limit, Len(results)))

\* Line 270: the rows the query ranges over.
SearchScope(rows, repo_path) == RowsOf(rows, repo_path)

\* Lines 255-297
Search(t, query, repo_path, limit, threshold) ==
    /\ req[t].pc = "idle"
    /\ LET called == [IdleReq EXCEPT !.op = "search",
                                     !.query = query,
                                     !.repo_path = repo_path,
                                     !.limit = limit,
                                     !.threshold = threshold,
                                     !.at_start = db]
       IN  IF Raises(db)
           THEN /\ req' = [req EXCEPT ![t] =
                              [called EXCEPT !.pc = "raised",
                                             !.error = "InFailedSqlTransaction"]]
                /\ UNCHANGED db
           ELSE /\ db' = ExecSelect(db)
                /\ \E fetched \in NearestRows(SearchScope(db.view, repo_path),
                                              encode(query), FetchCount(limit)) :
                      req' = [req EXCEPT ![t] =
                                 [called EXCEPT
                                     !.pc = "returned",
                                     !.results =
                                         Truncate(FilterResults(fetched, encode(query),
                                                                threshold), limit)]]
    /\ UNCHANGED <<ck, scan, ncalls, last>>

\* app.py lines 88-102 and 146-162: the handler answers and the thread is free.
Respond(t) ==
    /\ req[t].pc \in {"returned", "raised"}
    /\ req' = [req EXCEPT ![t] = IdleReq]
    /\ last' = IF req[t].op = "index" /\ req[t].pc = "returned"
               THEN [last EXCEPT ![req[t].repo_path] =
                        IF req[t].force THEN "forced" ELSE "plain"]
               ELSE last
    /\ UNCHANGED <<ck, scan, db, ncalls>>

NoScan == [pc |-> "none"]

Init ==
    /\ ck = NoChunkCall
    /\ scan = NoScan
    /\ db = EmptyDb
    /\ req = [t \in Threads |-> IdleReq]
    /\ ncalls = 0
    /\ last = [r \in RepoPaths |-> "none"]

\* One request at a time: a request enters only when no other is in flight.
Next ==
    \E t \in Threads :
        \/ NoneInFlight /\ \E p \in RepoPaths, force \in BOOLEAN : IndexEnter(t, p, force)
        \/ NoneInFlight /\ \E q \in Queries, p \in RepoPaths, l \in Limits, h \in Thresholds :
                              Search(t, q, p, l, h)
        \/ ClearExecute(t)
        \/ ClearCommit(t)
        \/ Collect(t)
        \/ IndexFileBegin(t)
        \/ InsertChunk(t)
        \/ CommitFile(t)
        \/ IndexReturn(t)
        \/ Respond(t)

Spec == Init /\ [][Next]_vars

\* Requests in flight together: app.run serves each request on a thread of its
\* own, and every thread calls the one flow object and its one connection.
\* MaxConcurrentCalls bounds the index calls of a run.
MaxConcurrentCalls == 2

NextConc ==
    \E t \in Threads :
        \/ /\ ncalls < MaxConcurrentCalls
           /\ \E p \in RepoPaths, force \in BOOLEAN : IndexEnter(t, p, force)
        \/ \E q \in {<<"x">>}, p \in RepoPaths, l \in {1}, h \in {70} : Search(t, q, p, l, h)
        \/ ClearExecute(t)
        \/ ClearCommit(t)
        \/ Collect(t)
        \/ IndexFileBegin(t)
        \/ InsertChunk(t)
        \/ CommitFile(t)
        \/ IndexReturn(t)
        \/ Respond(t)

SpecConc == Init /\ [][NextConc]_vars

InitChunk ==
    /\ ck \in ChunkArgs
    /\ scan = NoScan
    /\ db = EmptyDb
    /\ req = [t \in Threads |-> IdleReq]
    /\ ncalls = 0
    /\ last = [r \in RepoPaths |-> "none"]

SpecChunk == InitChunk /\ [][NextChunk]_vars

\* chunk_code runs on the thread that called it until it returns: a step that
\* can be taken is taken.
SpecChunkLive == SpecChunk /\ WF_vars(NextChunk)

(***************************************************************************)
(* The scanner: SpecScan draws a repository root and a directory tree      *)
(*   root/f  root/g  root/d1/f  root/d1/d2/g  root/d3/f                    *)
(* and runs _collect_files on it.                                          *)
(***************************************************************************)
ScanRoots == {<<"/", "r">>, <<"/", "b", "u", "i", "l", "d">>}

DirNames ==
    {<<"s", "r", "c">>,
     <<"d", "i", "s", "t">>,
     <<"r", "e", "d", "i", "s", "t", "s">>,
     <<".", "g", "i", "t", "h", "u", "b">>,
     <<"a", ".", "m", "i", "n", ".", "j", "s">>}

FileNames ==
    {<<"a", ".", "p", "y">>,
     <<"a", ".", "P", "Y">>,
     <<"a", ".", "m", "d">>,
     <<"a", ".", "m", "i", "n", ".", "j", "s">>,
     <<"d", "i", "s", "t", ".", "j", "s">>,
     <<".", "p", "y">>,
     <<"a">>}

TreeOf(root, d1, d2, d3, f, g) ==
    (root :> [dirs |-> <<d1, d3>>, filenames |-> <<f, g>>]) @@
    (PathJoin(root, d1) :> [dirs |-> <<d2>>, filenames |-> <<f>>]) @@
    (PathJoin(PathJoin(root, d1), d2) :> [dirs |-> <<>>, filenames |-> <<g>>]) @@
    (PathJoin(root, d3) :> [dirs |-> <<>>, filenames |-> <<f>>])

\* Names within one directory differ.
ScanInputs ==
    {x \in ScanRoots \X DirNames \X DirNames \X DirNames \X FileNames \X FileNames :
        x[2] # x[4] /\ x[5] # x[6]}

ScanCall(x) ==
    [pc |-> "called",
     listing |-> TreeOf(x[1], x[2], x[3], x[4], x[5], x[6]),
     repo_path |-> x[1],
     files |-> <<>>]

CollectStep ==
    /\ scan.pc = "called"
    /\ scan' = [scan EXCEPT !.files = ScanFiles(scan.listing, scan.repo_path),
                            !.pc = "returned"]
    /\ UNCHANGED <<ck, db, req, ncalls, last>>

NextScan == CollectStep

InitScan ==
    /\ ck = NoChunkCall
    /\ scan \in {ScanCall(x) : x \in ScanInputs}
    /\ db = EmptyDb
    /\ req = [t \in Threads |-> IdleReq]
    /\ ncalls = 0
    /\ last = [r \in RepoPaths |-> "none"]

SpecScan == InitScan /\ [][NextScan]_vars

(***************************************************************************)
(* Properties of index_repository and search (checked under Spec).         *)
(***************************************************************************)
IndexReturned(t) == req[t].op = "index" /\ req[t].pc = "returned"

SearchReturned(t) == req[t].op = "search" /\ req[t].pc = "returned"

StoredCount(d) == BagCardinality(d.code_chunks)

\* C1: when index_repository(repo_path, force=True) returns, the rows stored
\* for repo_path (and so their number) are those the same scan produces on
\* an empty store, whatever rows, committed or pending, existed before.
C1_ForceIsFreshScan ==
    \A t \in Threads :
        (IndexReturned(t) /\ req[t].force) =>
            /\ RowsOf(db.code_chunks, req[t].repo_path) = req[t].fresh.code_chunks
            /\ RowsOf(db.view, req[t].repo_path) = req[t].fresh.view
            /\ BagCardinality(RowsOf(db.code_chunks, req[t].repo_path))
                  = BagCardinality(req[t].fresh.code_chunks)

C1_Witness ==
    \E t \in Threads :
        /\ IndexReturned(t)
        /\ req[t].force
        /\ req[t].chunk_count > 0
        /\ DOMAIN RowsOf(req[t].at_start.code_chunks, req[t].repo_path) # {}
        /\ RowsOf(req[t].at_start.view, req[t].repo_path)
              # RowsOf(req[t].at_start.code_chunks, req[t].repo_path)
        /\ BagCardinality(RowsOf(db.code_chunks, req[t].repo_path))
              < BagCardinality(RowsOf(req[t].at_start.view, req[t].repo_path))

SecondPlainCall(t) == IndexReturned(t) /\ ~req[t].force /\ req[t].prev = "plain"

\* C2 as stated: the second of two non-forced calls on a repository strictly
\* increases the stored chunk count, or leaves it unchanged if no file
\* matched the scan, and removes no existing row.
C2_Original ==
    \A t \in Threads :
        SecondPlainCall(t) =>
            /\ Len(req[t].files_to_index) = 0 => StoredCount(db) = StoredCount(req[t].at_start)
            /\ Len(req[t].files_to_index) > 0 => StoredCount(db) > StoredCount(req[t].at_start)
            /\ req[t].at_start.code_chunks \sqsubseteq db.code_chunks

\* C2 amended: the second of two non-forced calls strictly increases the
\* stored chunk count if it stored at least one file, leaves it unchanged
\* otherwise (no file matched, or every matched file failed), and removes
\* no existing row.
C2_Amended ==
    \A t \in Threads :
        SecondPlainCall(t) =>
            /\ req[t].chunk_count > 0 => StoredCount(db) > StoredCount(req[t].at_start)
            /\ req[t].chunk_count = 0 => StoredCount(db) = StoredCount(req[t].at_start)
            /\ Len(req[t].files_to_index) = 0 => req[t].chunk_count = 0
            /\ req[t].at_start.code_chunks \sqsubseteq db.code_chunks

C2_Witness ==
    \E t \in Threads :
        /\ SecondPlainCall(t)
        /\ req[t].chunk_count > 0
        /\ DOMAIN RowsOf(req[t].at_start.code_chunks, req[t].repo_path) # {}
        /\ \E row \in DOMAIN db.code_chunks : db.code_chunks[row] = 2

OwnFailures == {"read_error", "encode_error", "client_error", "server_error"}

\* The rows the call has added to the table since its scan began.
AddedRows(t) == db.code_chunks (-) req[t].base

RowsOfFile(rows, rel_file_path) ==
    [r \in {x \in DOMAIN rows : x.file_path = rel_file_path} |-> rows[r]]

\* The rows a file contributes when it is indexed without failure.
RECURSIVE BagOfRows(_, _, _)
BagOfRows(repo_path, rel_file_path, chunks) ==
    IF chunks = <<>> THEN EmptyBag
    ELSE OneRow(ChunkRow(repo_path, rel_file_path, Head(chunks)))
         (+) BagOfRows(repo_path, rel_file_path, Tail(chunks))

FileRows(repo_path, file_path) ==
    BagOfRows(repo_path, RelPath(file_path, repo_path),
              smart_chunk(FileContents[file_path], MAX_CHUNK_SIZE, CHUNK_OVERLAP))

\* C3: when reading, embedding or storing a file fails, the call still
\* returns, the failed file contributes no stored row, and every other
\* candidate file is stored as if the failure had not happened.
C3_FailureIsolated ==
    \A t \in Threads :
        IndexReturned(t) =>
            \A i \in 1..Len(req[t].files_to_index) :
                LET file == req[t].files_to_index[i]
                    added == RowsOfFile(AddedRows(t), RelPath(file, req[t].repo_path))
                IN  IF req[t].outcomes[i] \in OwnFailures
                    THEN added = EmptyBag
                    ELSE added = FileRows(req[t].repo_path, file)

\* C4: index_repository on a path that does not exist raises and leaves the
\* store as it was, whatever force is: nothing written, nothing deleted,
\* nothing committed.
C4_MissingPathNoEffect ==
    \A t \in Threads :
        (req[t].op = "index" /\ ~PathExists(req[t].repo_path)) =>
            /\ req[t].pc = "raised"
            /\ req[t].error = "ValueError"
            /\ db = req[t].at_start

C4_Witness ==
    \E t \in Threads :
        /\ req[t].op = "index"
        /\ req[t].repo_path = RepoMissing
        /\ req[t].force
        /\ req[t].pc = "raised"
        /\ db.status = "intrans"
        /\ db.view # db.code_chunks
        /\ db.code_chunks # EmptyBag

\* C5: the sequence search returns is sorted by descending score, every
\* score is at least the threshold, and it has at most limit elements.
C5_SearchMonotone ==
    \A t \in Threads :
        SearchReturned(t) =>
            /\ Len(req[t].results) <= req[t].limit
            /\ \A i \in 1..Len(req[t].results) : req[t].results[i].score >= req[t].threshold
            /\ \A i \in 1..(Len(req[t].results) - 1) :
                  req[t].results[i].score >= req[t].results[i + 1].score

C5_Witness ==
    \E t \in Threads :
        /\ SearchReturned(t)
        /\ Len(req[t].results) = 2
        /\ req[t].limit = 2
        /\ req[t].results[1].score > req[t].results[2].score
        /\ BagCardinality(RowsOf(db.view, req[t].repo_path)) > 2

\* The rows of the repository that qualify for a search.
Qualifying(t) ==
    LET scope == RowsOf(req[t].at_start.view, req[t].repo_path)
    IN  [r \in {x \in DOMAIN scope :
                   Score(x.embedding, encode(req[t].query)) >= req[t].threshold}
            |-> scope[r]]

RECURSIVE ReturnedRows(_)
ReturnedRows(results) ==
    IF results = <<>> THEN EmptyBag
    ELSE OneRow(Head(results).row) (+) ReturnedRows(Tail(results))

ChunkReturned == ck.pc = "returned"

LineRange(chunk) == chunk.start_line..chunk.end_line

CoveredLines(chunks) == UNION {LineRange(chunks[i]) : i \in 1..Len(chunks)}

\* C7: for every content and every max_chunk_size >= 1 the returned chunks are
\* in increasing start_line order, each has start_line <= end_line <=
\* total_lines, and their line ranges cover 1..total_lines without a gap.
C7_Coverage ==
    (ChunkReturned /\ ck.max_chunk_size >= 1) =>
        /\ \A i \in 1..Len(ck.chunks) :
              /\ ck.chunks[i].start_line <= ck.chunks[i].end_line
              /\ ck.chunks[i].end_line <= ck.total_lines
        /\ \A i \in 1..(Len(ck.chunks) - 1) :
              ck.chunks[i].start_line < ck.chunks[i + 1].start_line
        /\ CoveredLines(ck.chunks) = 1..ck.total_lines

C7_Witness ==
    /\ ChunkReturned
    /\ Len(ck.chunks) >= 3
    /\ ck.chunk_overlap = 0
    /\ ck.chunks[Len(ck.chunks)].end_line - ck.chunks[Len(ck.chunks)].start_line + 1
          < ck.max_chunk_size

\* C8: when total_lines > max_chunk_size and chunk_overlap < max_chunk_size,
\* every pair of consecutive chunks other than the final pair satisfies
\* chunk[i].end_line - chunk[i+1].start_line + 1 = chunk_overlap.
C8_SlidingOverlap ==
    (ChunkReturned /\ ck.total_lines > ck.max_chunk_size
                   /\ ck.chunk_overlap < ck.max_chunk_size) =>
        \A i \in 1..(Len(ck.chunks) - 2) :
            ck.chunks[i].end_line - ck.chunks[i + 1].start_line + 1 = ck.chunk_overlap

C8_Witness ==
    /\ ChunkReturned
    /\ ck.total_lines > ck.max_chunk_size
    /\ ck.chunk_overlap > 0
    /\ ck.chunk_overlap < ck.max_chunk_size
    /\ Len(ck.chunks) >= 4

\* C9: the chunks of a file split into several chunks all carry total_chunks
\* equal to the number of chunks, chunk_number runs 0..total_chunks-1 in
\* emission order, chunk_type is chunk_<chunk_number>, and no returned chunk
\* keeps the placeholder -1.
C9_MetadataConsistent ==
    (ChunkReturned /\ Len(ck.chunks) > 1) =>
        \A i \in 1..Len(ck.chunks) :
            /\ ck.chunks[i].metadata.total_chunks = Len(ck.chunks)
            /\ ck.chunks[i].metadata.total_chunks # -1
            /\ ck.chunks[i].metadata.chunk_number = i - 1
            /\ ck.chunks[i].chunk_type = ChunkTypeOf(i - 1)

C9_Witness ==
    /\ ChunkReturned
    /\ Len(ck.chunks) >= 3
    /\ ck.chunks[3].metadata.chunk_number = 2

\* C10: when total_lines <= max_chunk_size exactly one chunk is returned, of
\* type whole_file, spanning lines 1..total_lines, not truncated; empty
\* content counts as one line.
C10_WholeFile ==
    /\ ck.content = <<>> => ck.total_lines = 1
    /\ (ChunkReturned /\ ck.total_lines <= ck.max_chunk_size) =>
          /\ Len(ck.chunks) = 1
          /\ ck.chunks[1].chunk_type = WholeFile
          /\ ck.chunks[1].start_line = 1
          /\ ck.chunks[1].end_line = ck.total_lines
          /\ ck.chunks[1].metadata.is_truncated = FALSE
          /\ ck.chunks[1].chunk_text = ck.content

C10_Witness ==
    /\ ChunkReturned
    /\ ck.total_lines = ck.max_chunk_size
    /\ ck.total_lines = 3
    /\ Len(ck.chunks) = 1

C10_WitnessEmpty ==
    /\ ChunkReturned
    /\ ck.content = <<>>
    /\ Len(ck.chunks) = 1

(***************************************************************************)
(* Requests sharing the connection (checked under SpecConc).               *)
(***************************************************************************)
\* The thread has executed a DELETE or INSERTs that it has not yet committed.
HasUncommittedWrites(u) ==
    \/ req[u].pc \in {"clear_commit", "commit"}
    \/ req[u].pc = "insert" /\ req[u].k > 1

\* The step is thread t calling commit().
CommitsIn(t) ==
    /\ req[t].pc \in {"clear_commit", "commit"}
    /\ req'[t].pc # req[t].pc

\* The step is a statement of thread t that the server rejects.
AbortsIn(t) ==
    /\ req[t].pc = "insert"
    /\ req'[t].pc = "loop"
    /\ db.status # "aborted"
    /\ db'.status = "aborted"

\* The step is the SELECT of a search by thread t.
SelectsIn(t) ==
    /\ req[t].pc = "idle"
    /\ req'[t].op = "search"
    /\ req'[t].pc = "returned"

\* C11: requests in flight together keep their writes in transactions of
\* their own: no step in which one request commits, has a statement rejected,
\* or reads, happens while another request has uncommitted writes on the
\* connection (which the commit would make durable, the rejection would
\* discard, and the read would see).
C11_OwnTransaction ==
    [][\A t \in Threads, u \in Threads :
          (t # u /\ HasUncommittedWrites(u)) =>
              ~(CommitsIn(t) \/ AbortsIn(t) \/ SelectsIn(t))]_vars

\* The call is past _clear_repo_index: it scans, or has scanned, and writes
\* chunks.
PastClear(t) ==
    /\ req[t].op = "index"
    /\ req[t].force
    /\ req[t].pc \in {"collect", "loop", "insert", "commit", "returned"}

\* The call has written nothing yet.
NothingWritten(t) ==
    /\ req[t].k = 0
    /\ req[t].outcomes = <<>>
    /\ req[t].fresh.view = EmptyBag

\* C12: in a forced index the DELETE of the repository's rows has been
\* committed when the scan begins, so before any chunk of the scan is written;
\* and while the call is still clearing it has written no chunk that its
\* DELETE could remove.
C12_DeleteBeforeScan ==
    \A t \in Threads :
        /\ PastClear(t) => req[t].cleared = "committed"
        /\ req[t].pc \in {"clear", "clear_commit"} => NothingWritten(t)

(***************************************************************************)
(* Frame and counters of index_repository (checked under Spec).            *)
(***************************************************************************)
\* C13: from the moment index_repository(repo_path, force) is called, and
\* however it ends, the rows of every other repository are as they were when
\* the call began, in the table and in what the connection shows.
C13_OtherReposUnchanged ==
    \A t \in Threads :
        req[t].op = "index" =>
            /\ RowsNotOf(db.code_chunks, req[t].repo_path)
                  = RowsNotOf(req[t].at_start.code_chunks, req[t].repo_path)
            /\ RowsNotOf(db.view, req[t].repo_path)
                  = RowsNotOf(req[t].at_start.view, req[t].repo_path)

\* The rows of its repository that the call has durably added since its scan
\* began, and the files they belong to.
DurablyAdded(t) == RowsOf(AddedRows(t), req[t].repo_path)

FilesStored(t) == {row.file_path : row \in DOMAIN DurablyAdded(t)}

\* C16: when index_repository returns, chunks_created is the number of rows
\* the call durably added for repo_path, files_indexed is the number of files
\* with at least one such row, and files_indexed <= files_found.
C16_CountsMatchStore ==
    \A t \in Threads :
        IndexReturned(t) =>
            /\ req[t].chunk_count = BagCardinality(DurablyAdded(t))
            /\ req[t].indexed_count = Cardinality(FilesStored(t))
            /\ req[t].indexed_count <= Len(req[t].files_to_index)

(***************************************************************************)
(* Properties of _collect_files (checked under SpecScan).                  *)
(***************************************************************************)
ScanReturned == scan.pc = "returned"

Range(seq) == {seq[i] : i \in 1..Len(seq)}

\* Every file of the tree, by its path.
TreeFiles(listing) ==
    UNION {{PathJoin(d, name) : name \in Range(listing[d].filenames)} : d \in DOMAIN listing}

\* The skip patterns of config.py with the markers **/ and /** taken off.
SkipSubstrings ==
    {<<"n", "o", "d", "e", "_", "m", "o", "d", "u", "l", "e", "s">>,
     <<"d", "i", "s", "t">>,
     <<"b", "u", "i", "l", "d">>,
     <<"*", ".", "m", "i", "n", ".", "j", "s">>,
     <<"*", ".", "l", "o", "c", "k">>,
     <<"v", "e", "n", "d", "o", "r">>,
     <<".", "g", "i", "t">>,
     <<"t", "a", "r", "g", "e", "t">>,
     <<"_", "_", "p", "y", "c", "a", "c", "h", "e", "_", "_">>,
     <<"v", "e", "n", "v">>,
     <<"c", "o", "v", "e", "r", "a", "g", "e">>,
     <<".", "n", "e", "x", "t">>,
     <<".", "c", "a", "c", "h", "e">>}

\* The directories strictly below repo_path that path lies in.
AncestorsBelow(listing, path, repo_path) ==
    {d \in DOMAIN listing :
        /\ d # repo_path
        /\ Len(d) < Len(path)
        /\ SubSeq(path, 1, Len(d) + 1) = d \o <<"/">>}

NoSkippedAncestor(listing, path, repo_path) ==
    \A d \in AncestorsBelow(listing, path, repo_path) :
        \A sub \in SkipSubstrings : ~Contains(RelPath(d, repo_path), sub)

\* C14 as stated: a file of the tree is returned exactly when its extension
\* is in the allow-list and no ancestor directory below repo_path has a
\* relative path containing a skip substring.
C14_Original ==
    ScanReturned =>
        \A path \in TreeFiles(scan.listing) :
            path \in Range(scan.files) <=>
                /\ SplitExt(path) \in INDEXABLE_EXTENSIONS
                /\ NoSkippedAncestor(scan.listing, path, scan.repo_path)

\* C14 amended: a file of the tree is returned (once) exactly when its
\* extension, lower-cased, is in the allow-list and no ancestor directory
\* below repo_path has a relative path containing a skip substring; nothing
\* else is returned, so skip patterns prune directories only.
C14_Amended ==
    ScanReturned =>
        /\ \A path \in TreeFiles(scan.listing) :
              path \in Range(scan.files) <=>
                  /\ Lower(SplitExt(path)) \in INDEXABLE_EXTENSIONS
                  /\ NoSkippedAncestor(scan.listing, path, scan.repo_path)
        /\ Range(scan.files) \subseteq TreeFiles(scan.listing)
        /\ Cardinality(Range(scan.files)) = Len(scan.files)

\* A scan below a root whose own name holds a skip substring: it returns a
\* file with an upper-case extension and a file named like a skip pattern,
\* and leaves out an indexable file below a directory whose name only
\* contains a skip substring.
C14_Witness ==
    /\ ScanReturned
    /\ \E sub \in SkipSubstrings : Contains(scan.repo_path, sub)
    /\ \E path \in Range(scan.files) : SplitExt(path) \notin INDEXABLE_EXTENSIONS
    /\ \E path \in Range(scan.files) :
          Contains(path, <<".", "m", "i", "n", ".", "j", "s">>)
    /\ \E path \in TreeFiles(scan.listing) \ Range(scan.files) :
          /\ Lower(SplitExt(path)) \in INDEXABLE_EXTENSIONS
          /\ \E d \in AncestorsBelow(scan.listing, path, scan.repo_path) :
                Contains(RelPath(d, scan.repo_path), <<"r", "e", "d", "i", "s", "t", "s">>)

(***************************************************************************)
(* Termination of chunk_code (checked under SpecChunkLive).                *)
(***************************************************************************)
\* The call is within the claim's case: chunk_overlap < max_chunk_size <
\* total_lines.
C15_Case ==
    /\ ck.pc # "none"
    /\ ck.chunk_overlap < ck.max_chunk_size
    /\ ck.max_chunk_size < ck.total_lines

\* The lines of chunk k (k = 0, 1, ...) as the claim gives them.
ClaimedStart(k, max_chunk_size, chunk_overlap) ==
    k * (max_chunk_size - chunk_overlap) + 1

ClaimedEnd(k, max_chunk_size, chunk_overlap, total_lines) ==
    Min(k * (max_chunk_size - chunk_overlap) + max_chunk_size, total_lines)

\* The chunks emitted so far: each covers the claimed lines, none is empty or
\* starts beyond the last line, and none follows a chunk that ends at the
\* last line.
C15_Emitted ==
    C15_Case =>
        \A i \in 1..Len(ck.chunks) :
            /\ ck.chunks[i].start_line
                  = ClaimedStart(i - 1, ck.max_chunk_size, ck.chunk_overlap)
            /\ ck.chunks[i].end_line
                  = ClaimedEnd(i - 1, ck.max_chunk_size, ck.chunk_overlap, ck.total_lines)
            /\ ck.chunks[i].start_line <= ck.chunks[i].end_line
            /\ ck.chunks[i].start_line <= ck.total_lines
            /\ i < Len(ck.chunks) => ck.chunks[i].end_line < ck.total_lines

\* The returned list ends with a chunk that ends at the last line.
C15_Returned ==
    (C15_Case /\ ChunkReturned) =>
        /\ Len(ck.chunks) >= 1
        /\ ck.chunks[Len(ck.chunks)].end_line = ck.total_lines

\* The claim's formula gives the lines of its example (1200 lines, 500, 100).
C15_Example ==
    [n \in 1..3 |-> <<ClaimedStart(n - 1, 500, 100), ClaimedEnd(n - 1, 500, 100, 1200)>>]
        = <<<<1, 500>>, <<401, 900>>, <<801, 1200>>>>

\* C15: for chunk_overlap < max_chunk_size < total_lines, chunk_code
\* returns; chunk k covers lines k*(max-overlap)+1 to
\* min(k*(max-overlap)+max, total); no chunk is emitted after the first one
\* that ends at total_lines, so the last chunk ends exactly there; no chunk
\* is empty or starts beyond total_lines.
C15_Terminates ==
    /\ [](C15_Emitted /\ C15_Returned /\ C15_Example)
    /\ C15_Case ~> ChunkReturned

\* A call of the example's shape has returned: three chunks, the second
\* overlapping the first, the third cut short by the end of the file.
C15_Witness ==
    /\ C15_Case
    /\ ChunkReturned
    /\ ck.chunk_overlap > 0
    /\ Len(ck.chunks) = 3
    /\ ck.chunks[3].end_line - ck.chunks[3].start_line + 1 < ck.max_chunk_size

====
